---- MODULE Spec2Model ----
(***************************************************************************)
(* QueryVault client: the chat screen (SplitViewChat) with its content     *)
(* viewer (PDFViewer or YouTubePlayer), the chat transcript                *)
(* (ChatContainer) and the citation navigation between them.               *)
(*                                                                         *)
(* React state is modelled by one variable per useState/useRef cell.  An   *)
(* event handler is one action.  The passive effects React runs after a    *)
(* render are the actions CommitEffects and ExposeEffect; React flushes    *)
(* them before it dispatches the next event, so every other action is      *)
(* guarded by Settled.                                                     *)
(*                                                                         *)
(* JavaScript null/undefined numbers are written 0 where the code only     *)
(* compares or coerces them (numPages = null compares as 0).               *)
(***************************************************************************)
EXTENDS Integers, Sequences, FiniteSets, TLC

\* ---------------------------------------------------------------- bounds
MaxPages == 2      \* largest page count a loaded document reports
MaxTime == 2       \* largest video position / citation timestamp (seconds)
MaxClock == 1      \* largest value Date.now() takes
MaxMsgs == 3       \* an ask is accepted while the transcript is shorter
MaxPending == 2    \* service calls in flight, abandoned ones included
MaxBookmarks == 2  \* a bookmark is added while the store is smaller
MaxTimers == 2     \* highlight timers that can be waiting at once
MaxOvershoot == 2  \* how far past minWidth / maxWidth the pointer gets
MaxUploads == 2    \* upload calls awaited, abandoned ones included
MaxNavTimers == 2  \* navigation timers that can be waiting at once

VARIABLES
    screen,         \* route: "home", "chat" or "empty" (no document loaded)
    mode,           \* location.state.mode: "none", "pdf", "youtube"
    file,           \* location.state.file present
    videoId,        \* location.state.videoId present
    currentPage,    \* SplitViewChat: useState(1)
    currentTimestamp, \* SplitViewChat: useState(0)
    ytRef,          \* SplitViewChat: youtubePlayerRef.current is set
    numPages,       \* PDFViewer: useState(null), null written 0
    pageNumber,     \* PDFViewer: useState(initialPage)
    pdfLoading,     \* PDFViewer: useState(true)
    pdfError,       \* PDFViewer: useState(null), as a flag
    depInitialPage, \* PDFViewer: initialPage the effects last ran with
    depPageNumber,  \* PDFViewer: pageNumber the effects last ran with
    ytApi,          \* window.YT and window.YT.Player are defined
    apiCallback,    \* window.onYouTubeIframeAPIReady holds a live initPlayer
    ytStage,        \* YT.Player of the mounted viewer: "none", "created", "ready"
    player,         \* YouTubePlayer: useState(null) holds the player
    isPlaying,      \* YouTubePlayer: useState(false)
    exposePending,  \* YouTubePlayer: the expose effect has to run
    playerTime,     \* the YT player's position
    playerState,    \* the YT player's state: "unstarted", "playing", "paused"
    messages,       \* ChatContainer: useState([])
    loading,        \* ChatContainer: useState(false)
    pending,        \* queryDocuments calls awaiting their response
    bookmarks,      \* BookmarkProvider: useState([])
    bookmarksPanelOpen, \* ChatContainer: useState(false)
    scrolledTo,     \* the last scrollIntoView target: 0 for the end marker
                    \* (messagesEndRef), a position for a message
    ring,           \* the rendered messages (by position) that carry the
                    \* highlight classes
    timers,         \* the setTimeout callbacks of scrollToMessage not yet
                    \* run, oldest first, each with the position it clears
    now,            \* the value Date.now() returns
    lastReply,      \* history: the service outcome delivered last, NoReply
                    \* once another ask or session has started
    lastNav,        \* history: the citation clicked last, NoNav once the
                    \* viewer was moved by anything else
    navFrom,        \* history: the viewer's position when lastNav was clicked
    droppedSeek,    \* history: a stream citation was clicked in this session
                    \* before the player reported ready
    uploading,      \* Upload: uploading
    uploadError,    \* Upload: error is set
    uploadCalls,    \* uploadPDF / uploadYouTube calls awaited: [kind, live]
    navTimers,      \* descriptors of the setTimeout(navigate) callbacks waiting
    ytPlayers,      \* the YT.Player instances not destroyed, as [owner, ready]
    closurePlayer,  \* player as the cleanup of the init effect holds it
    leftWidth,      \* SplitView: useState(defaultLeftWidth), in percent
    isDragging,     \* SplitView: useState(false)
    depDragging,    \* SplitView: isDragging the drag effect last ran with
    listeners,      \* pairs of mousemove/mouseup listeners of SplitView
                    \* attached to the document
    missedJump,     \* history: a panel entry was clicked in this session
                    \* whose id no rendered message carried
    lastOp          \* history: the BookmarkContext function a consumer
                    \* called last, with its argument, its result and the
                    \* store it was called on; NoOp once a button of the
                    \* chat panel has operated the store

routeVars == <<screen, mode, file, videoId>>
splitVars == <<leftWidth, isDragging, depDragging, listeners>>
uploadVars == <<uploading, uploadError, uploadCalls, navTimers>>
instVars == <<ytPlayers, closurePlayer>>
pdfVars == <<currentPage, numPages, pageNumber, pdfLoading, pdfError,
             depInitialPage, depPageNumber>>
ytVars == <<currentTimestamp, ytRef, ytApi, apiCallback, ytStage, player, isPlaying,
            exposePending, playerTime, playerState>>
chatVars == <<messages, loading, pending>>
markVars == <<bookmarks, lastOp, bookmarksPanelOpen, scrolledTo, ring, timers>>
histVars == <<lastReply, lastNav, navFrom, droppedSeek, missedJump>>
vars == <<routeVars, splitVars, uploadVars, instVars, pdfVars, ytVars, chatVars, markVars, now, histVars>>

\* SplitViewChat's props of SplitView, in percent of the container.
defaultLeftWidth == 50
minWidth == 30
maxWidth == 70

\* ---------------------------------------------------------------- values
Pdf(p) == [type |-> "pdf", page |-> p]
Yt(t) == [type |-> "youtube", timestamp |-> t]
Web == [type |-> "web"]
NoNav == [type |-> "none"]
NoReply == [kind |-> "none"]
NoFrom == [page |-> 0, numPages |-> 0, time |-> 0, state |-> "none"]
NoOp == [op |-> "none"]

RECURSIVE Reverse(_)
Reverse(s) == IF s = <<>> THEN <<>> ELSE Reverse(Tail(s)) \o <<Head(s)>>

\* Page numbers a citation can carry: the backend's page extraction is not
\* bound to the document, so below, inside and above 1..numPages.
CitedPages == -1 .. (MaxPages + 1)
CitedTimes == 0 .. MaxTime

\* Every source the backend can return, in one list.
AllSources ==
    [i \in 1 .. (MaxPages + 3) |-> Pdf(i - 2)]
    \o [i \in 1 .. (MaxTime + 1) |-> Yt(i - 1)]
    \o <<Web>>

\* response.sources of POST /query: absent, empty, or a list in some order.
SourceLists == {<<>>, AllSources, Reverse(AllSources)}
\* Texts: a question is one string, an answer or error text a tuple of
\* the pieces it is put together from.
Questions == {"q1", "q2"}
Answers == {<<"a1">>}
Errors == {"e1"}

Truthy(n) == n # 0
Max(a, b) == IF a >= b THEN a ELSE b
Min(a, b) == IF a <= b THEN a ELSE b

\* ---------------------------------------------------------------- settle
\* No passive effect is waiting to run.
Settled ==
    /\ depInitialPage = currentPage
    /\ depPageNumber = pageNumber
    /\ ~exposePending

\* renderViewer: which viewer SplitViewChat mounts.
PdfMounted == screen = "chat" /\ mode = "pdf" /\ file
YtMounted == screen = "chat" /\ mode = "youtube" /\ videoId

\* ---------------------------------------------------------------- start
\* The browser has loaded the application; no chat screen is mounted.
Unmounted ==
    /\ currentPage = 1 /\ numPages = 0 /\ pageNumber = 1
    /\ pdfLoading = TRUE /\ pdfError = FALSE
    /\ depInitialPage = 1 /\ depPageNumber = 1
    /\ currentTimestamp = 0
    /\ ytRef = FALSE /\ ytStage = "none" /\ player = FALSE
    /\ isPlaying = FALSE /\ exposePending = FALSE
    /\ playerTime = 0 /\ playerState = "unstarted"
    /\ messages = <<>> /\ loading = FALSE
    /\ bookmarksPanelOpen = FALSE /\ scrolledTo = 0
    /\ ring = {} /\ timers = <<>>
    /\ closurePlayer = FALSE
    /\ leftWidth = defaultLeftWidth /\ isDragging = FALSE
    /\ depDragging = FALSE
    /\ lastReply = NoReply /\ lastNav = NoNav /\ navFrom = NoFrom
    /\ droppedSeek = FALSE /\ missedJump = FALSE

Init ==
    /\ screen = "home" /\ mode = "none" /\ file = FALSE /\ videoId = FALSE
    /\ Unmounted
    /\ ytApi = FALSE /\ apiCallback = "none"
    /\ listeners = 0
    /\ uploading = FALSE /\ uploadError = FALSE
    /\ uploadCalls = <<>> /\ navTimers = <<>>
    /\ ytPlayers = {}
    /\ pending = <<>>
    /\ bookmarks = <<>> /\ lastOp = NoOp
    /\ now = 0

\* The state every component of the chat screen is constructed with.  The
\* message elements of an earlier screen are gone from the document, and
\* with them what their highlight timers could change.
MountChat ==
    /\ currentPage' = 1 /\ numPages' = 0 /\ pageNumber' = 1
    /\ pdfLoading' = TRUE /\ pdfError' = FALSE
    /\ depInitialPage' = 1 /\ depPageNumber' = 1
    /\ currentTimestamp' = 0
    /\ ytRef' = FALSE /\ player' = FALSE
    /\ isPlaying' = FALSE /\ exposePending' = FALSE
    /\ playerTime' = 0 /\ playerState' = "unstarted"
    /\ messages' = <<>> /\ loading' = FALSE
    /\ bookmarksPanelOpen' = FALSE /\ scrolledTo' = 0
    /\ ring' = {} /\ timers' = <<>>
    /\ closurePlayer' = FALSE
    /\ leftWidth' = defaultLeftWidth /\ isDragging' = FALSE
    /\ depDragging' = FALSE
    /\ lastReply' = NoReply /\ lastNav' = NoNav /\ navFrom' = NoFrom
    /\ droppedSeek' = FALSE /\ missedJump' = FALSE

\* YouTubePlayer.initPlayer: new window.YT.Player(...), owned by the
\* mounted viewer and not yet ready.  Instances that agree in owner and
\* readiness are not told apart.
initPlayer(alive) == alive \cup {[owner |-> "mounted", ready |-> FALSE]}

\* events.onReady reaches the instance of the mounted viewer.
PlayerReady(alive) ==
    {IF p.owner = "mounted" THEN [p EXCEPT !.ready = TRUE] ELSE p : p \in alive}

\* Mutant: the cleanup reads the player the viewer holds when it runs.
InitCleanup_CurrentPlayer(alive) ==
    IF player THEN {p \in alive : p.owner # "mounted"} ELSE alive

\* YouTubePlayer init effect, cleanup: `if (player) player.destroy()` with
\* the player of the render the effect ran in.  Its dependencies videoId
\* and initialTimestamp do not change within a session, so that is the
\* first render.
InitCleanup(alive) ==
    IF closurePlayer THEN {p \in alive : p.owner # "mounted"} ELSE alive

\* The viewer is gone: what it created and did not destroy has no owner.
Orphaned(alive) == {[p EXCEPT !.owner = "gone"] : p \in alive}

\* Upload.handlePDFUpload: the timer started after a successful upload
\* navigates to /chat with {file, mode: PDF}.
OpenPdfChat ==
    /\ screen = "home"
    /\ screen' = "chat" /\ mode' = "pdf" /\ file' = TRUE /\ videoId' = FALSE
    /\ MountChat
    /\ ytStage' = "none"
    /\ UNCHANGED <<uploadVars, ytPlayers, ytApi, apiCallback, listeners, pending, bookmarks, lastOp,
                   now>>

\* Upload.handleYouTubeUpload: navigates to /chat with {videoId, mode:
\* YOUTUBE}; YouTubePlayer's init effect creates the player at once when
\* the IFrame API is there, and registers initPlayer otherwise.
OpenYoutubeChat ==
    /\ screen = "home"
    /\ screen' = "chat" /\ mode' = "youtube" /\ file' = FALSE /\ videoId' = TRUE
    /\ MountChat
    /\ IF ytApi
         THEN /\ ytStage' = "created" /\ apiCallback' = apiCallback
                     /\ ytPlayers' = initPlayer(ytPlayers)
         ELSE /\ ytStage' = "none" /\ apiCallback' = "live"
                     /\ ytPlayers' = ytPlayers
    /\ UNCHANGED <<uploadVars, ytApi, listeners, pending, bookmarks, lastOp, now>>

\* location.state as SplitViewChat can find it: nothing (a direct load of
\* /chat reads {}), or an object with any of file, videoId and mode.
LocationStates ==
    [file : BOOLEAN, videoId : BOOLEAN, mode : {"none", "pdf", "youtube"}]

\* SplitViewChat's guard: with neither file nor videoId only the "No
\* document loaded" screen is rendered.
GuardScreen(state) ==
    IF ~state.file /\ ~state.videoId THEN "empty" ELSE "chat"

\* The route /chat is rendered with some location.state: the guard, then
\* SplitView with renderViewer() and ChatContainer.  YouTubePlayer's init
\* effect runs if renderViewer mounted it.
EnterChat(state) ==
    /\ screen = "home"
    /\ screen' = GuardScreen(state)
    /\ mode' = state.mode /\ file' = state.file /\ videoId' = state.videoId
    /\ MountChat
    /\ IF state.mode = "youtube" /\ state.videoId
         THEN IF ytApi
                THEN /\ ytStage' = "created" /\ apiCallback' = apiCallback
                     /\ ytPlayers' = initPlayer(ytPlayers)
                ELSE /\ ytStage' = "none" /\ apiCallback' = "live"
                     /\ ytPlayers' = ytPlayers
         ELSE /\ ytStage' = "none" /\ apiCallback' = apiCallback
              /\ ytPlayers' = ytPlayers
    /\ UNCHANGED <<uploadVars, ytApi, listeners, pending, bookmarks, lastOp, now>>

\* "Go to Home" on the "No document loaded" screen: navigate('/').
GoToHome ==
    /\ screen = "empty"
    /\ screen' = "home" /\ mode' = "none" /\ file' = FALSE /\ videoId' = FALSE
    /\ MountChat
    /\ ytStage' = "none"
    /\ UNCHANGED <<uploadVars, ytPlayers, ytApi, apiCallback, listeners, pending, bookmarks, lastOp,
                   now>>

\* A continuation of an unmounted ChatContainer can no longer change state.
Abandon(reqs) == [i \in 1 .. Len(reqs) |-> [reqs[i] EXCEPT !.live = FALSE]]

\* Mutant: the cleanup of the drag effect takes no listener off.
DragCleanup_Leak(attached) == attached

\* SplitView drag effect, cleanup: removeEventListener for the handlers of
\* the run being cleaned up, which were added if isDragging was set then.
DragCleanup(attached) ==
    IF depDragging THEN attached - 1 ELSE attached

\* SplitViewChat header: navigate('/') unmounts the chat screen.
LeaveChat ==
    /\ screen = "chat" /\ Settled /\ depDragging = isDragging
    /\ listeners' = DragCleanup(listeners)
    /\ screen' = "home" /\ mode' = "none" /\ file' = FALSE /\ videoId' = FALSE
    /\ MountChat
    /\ ytStage' = "none"
    /\ apiCallback' = IF apiCallback = "live" THEN "stale" ELSE apiCallback
    /\ pending' = Abandon(pending)
    /\ ytPlayers' = Orphaned(InitCleanup(ytPlayers))
    /\ UNCHANGED <<uploadVars, ytApi, bookmarks, lastOp, now>>

\* ------------------------------------------------------------ PDFViewer
\* Mutant: the effect only ever moves the page forward.
InitialPageEffect_ForwardOnly(initialPage, pn) ==
    IF Truthy(initialPage) /\ initialPage > pn THEN initialPage ELSE pn

\* PDFViewer effect on [initialPage]: the page number it leaves.
InitialPageEffect(initialPage, pn) ==
    IF Truthy(initialPage) /\ initialPage # pn THEN initialPage ELSE pn

\* PDFViewer effect on [pageNumber, onPageChange]: onPageChange(pageNumber),
\* which is SplitViewChat's setCurrentPage.
PageChangeEffect(pn) == pn

\* Mutant: a change of page makes a viewer that failed try the load again.
CommitEffects_Retry ==
    /\ PdfMounted
    /\ depInitialPage # currentPage \/ depPageNumber # pageNumber
    /\ pageNumber' = IF depInitialPage # currentPage
                       THEN InitialPageEffect(currentPage, pageNumber)
                       ELSE pageNumber
    /\ currentPage' = IF depPageNumber # pageNumber
                        THEN PageChangeEffect(pageNumber)
                        ELSE currentPage
    /\ depInitialPage' = currentPage
    /\ depPageNumber' = pageNumber
    /\ pdfError' = FALSE
    /\ pdfLoading' = (pdfLoading \/ pdfError)
    /\ UNCHANGED <<routeVars, splitVars, uploadVars, instVars, numPages, ytVars,
                   chatVars, markVars, now, histVars>>

\* One render of PDFViewer followed by its effects.  Each effect runs when
\* its dependency differs from the previous render, with the values of this
\* render; the state updates they queue are applied together.
CommitEffects ==
    /\ PdfMounted
    /\ depInitialPage # currentPage \/ depPageNumber # pageNumber
    /\ pageNumber' = IF depInitialPage # currentPage
                       THEN InitialPageEffect(currentPage, pageNumber)
                       ELSE pageNumber
    /\ currentPage' = IF depPageNumber # pageNumber
                        THEN PageChangeEffect(pageNumber)
                        ELSE currentPage
    /\ depInitialPage' = currentPage
    /\ depPageNumber' = pageNumber
    /\ UNCHANGED <<routeVars, splitVars, uploadVars, instVars, numPages, pdfLoading, pdfError, ytVars,
                   chatVars, markVars, now, histVars>>

\* Mutant: a document that has loaded is shown from its first page.
onDocumentLoadSuccess_FirstPage(n) ==
    /\ PdfMounted /\ Settled
    /\ pdfLoading /\ ~pdfError
    /\ numPages' = n
    /\ pageNumber' = 1
    /\ pdfLoading' = FALSE
    /\ pdfError' = FALSE
    /\ UNCHANGED <<routeVars, splitVars, uploadVars, instVars, currentPage, depInitialPage,
                   depPageNumber, ytVars, chatVars, markVars, now, histVars>>

\* PDFViewer.onDocumentLoadSuccess, called by react-pdf once per document.
onDocumentLoadSuccess(n) ==
    /\ PdfMounted /\ Settled
    /\ pdfLoading /\ ~pdfError
    /\ numPages' = n
    /\ pdfLoading' = FALSE
    /\ pdfError' = FALSE
    /\ UNCHANGED <<routeVars, splitVars, uploadVars, instVars, currentPage, pageNumber, depInitialPage,
                   depPageNumber, ytVars, chatVars, markVars, now, histVars>>

\* PDFViewer.onDocumentLoadError.
onDocumentLoadError ==
    /\ PdfMounted /\ Settled
    /\ pdfLoading /\ ~pdfError
    /\ pdfError' = TRUE
    /\ pdfLoading' = FALSE
    /\ UNCHANGED <<routeVars, splitVars, uploadVars, instVars, currentPage, numPages, pageNumber,
                   depInitialPage, depPageNumber, ytVars, chatVars, markVars, now,
                   histVars>>

\* Previous-page button: disabled while pageNumber <= 1.
goToPrevPage ==
    /\ PdfMounted /\ Settled
    /\ ~(pageNumber <= 1)
    /\ pageNumber' = Max(1, pageNumber - 1)
    /\ lastNav' = NoNav /\ navFrom' = NoFrom
    /\ UNCHANGED <<routeVars, splitVars, uploadVars, instVars, currentPage, numPages, pdfLoading, pdfError,
                   depInitialPage, depPageNumber, ytVars, chatVars, markVars, now,
                   lastReply, droppedSeek, missedJump>>

\* Mutant: the next-page button is never disabled and does not stop at the
\* last page.
goToNextPage_NoLimit ==
    /\ PdfMounted /\ Settled
    /\ pageNumber <= MaxPages
    /\ pageNumber' = pageNumber + 1
    /\ lastNav' = NoNav /\ navFrom' = NoFrom
    /\ UNCHANGED <<routeVars, splitVars, uploadVars, instVars, currentPage, numPages,
                   pdfLoading, pdfError, depInitialPage, depPageNumber,
                   ytVars, chatVars, markVars, now, lastReply, droppedSeek,
                   missedJump>>

\* Next-page button: disabled while pageNumber >= numPages.
goToNextPage ==
    /\ PdfMounted /\ Settled
    /\ ~(pageNumber >= numPages)
    /\ pageNumber' = Min(numPages, pageNumber + 1)
    /\ lastNav' = NoNav /\ navFrom' = NoFrom
    /\ UNCHANGED <<routeVars, splitVars, uploadVars, instVars, currentPage, numPages, pdfLoading, pdfError,
                   depInitialPage, depPageNumber, ytVars, chatVars, markVars, now,
                   lastReply, droppedSeek, missedJump>>

\* Page number input, onChange with parseInt(e.target.value) = page.
TypePage(page) ==
    /\ PdfMounted /\ Settled
    /\ pageNumber' = IF page >= 1 /\ page <= numPages THEN page ELSE pageNumber
    /\ lastNav' = IF page >= 1 /\ page <= numPages THEN NoNav ELSE lastNav
    /\ navFrom' = IF page >= 1 /\ page <= numPages THEN NoFrom ELSE navFrom
    /\ UNCHANGED <<routeVars, splitVars, uploadVars, instVars, currentPage, numPages, pdfLoading, pdfError,
                   depInitialPage, depPageNumber, ytVars, chatVars, markVars, now,
                   lastReply, droppedSeek, missedJump>>

\* -------------------------------------------------------- YouTubePlayer
\* The IFrame API script inserted by the init effect has loaded: it calls
\* window.onYouTubeIframeAPIReady once.  An initPlayer left behind by an
\* unmounted viewer creates nothing the mounted screen can see.
YouTubeApiReady ==
    /\ ~ytApi /\ apiCallback # "none"
    /\ Settled
    /\ ytApi' = TRUE
    /\ apiCallback' = "none"
    /\ ytStage' = IF apiCallback = "live" /\ YtMounted THEN "created" ELSE ytStage
    /\ IF apiCallback = "live" /\ YtMounted
         THEN ytPlayers' = initPlayer(ytPlayers)
         ELSE ytPlayers' = ytPlayers
    /\ UNCHANGED <<routeVars, splitVars, uploadVars, closurePlayer, pdfVars, currentTimestamp, ytRef, player,
                   isPlaying, exposePending, playerTime, playerState,
                   chatVars, markVars, now, histVars>>

\* YT.Player.seekTo of the IFrame API: a paused player stays paused, from
\* any other state the player plays.
PlayerSeekState(st) == IF st = "paused" THEN "paused" ELSE "playing"

\* events.onReady of initPlayer.
onReady ==
    /\ YtMounted /\ Settled
    /\ ytStage = "created"
    /\ ytStage' = "ready"
    /\ player' = TRUE
    /\ ytPlayers' = PlayerReady(ytPlayers)
    /\ exposePending' = TRUE
    /\ IF currentTimestamp > 0
         THEN /\ playerTime' = currentTimestamp
              /\ playerState' = PlayerSeekState(playerState)
         ELSE UNCHANGED <<playerTime, playerState>>
    /\ isPlaying' = (playerState' = "playing")
    /\ lastNav' = NoNav /\ navFrom' = NoFrom
    /\ UNCHANGED <<routeVars, splitVars, uploadVars, closurePlayer, pdfVars, currentTimestamp, ytRef, ytApi,
                   apiCallback, chatVars, markVars, now, lastReply, droppedSeek, missedJump>>

\* YouTubePlayer effect on [player, onTimeUpdate]: hands {seekTo} of this
\* render to SplitViewChat, which stores it in youtubePlayerRef.
ExposeEffect ==
    /\ YtMounted
    /\ exposePending
    /\ exposePending' = FALSE
    /\ ytRef' = IF player THEN TRUE ELSE ytRef
    /\ UNCHANGED <<routeVars, splitVars, uploadVars, instVars, pdfVars, currentTimestamp, ytApi, apiCallback,
                   ytStage, player, isPlaying, playerTime, playerState,
                   chatVars, markVars, now, histVars>>

\* YouTubePlayer.togglePlay; events.onStateChange mirrors the player's
\* state into isPlaying.
togglePlay ==
    /\ YtMounted /\ Settled
    /\ player
    /\ playerState' = IF isPlaying THEN "paused" ELSE "playing"
    /\ isPlaying' = (playerState' = "playing")
    /\ lastNav' = NoNav /\ navFrom' = NoFrom
    /\ UNCHANGED <<routeVars, splitVars, uploadVars, instVars, pdfVars, currentTimestamp, ytRef, ytApi,
                   apiCallback, ytStage, player, exposePending, playerTime,
                   chatVars, markVars, now, lastReply, droppedSeek, missedJump>>

\* Playback: a playing video moves on by a second.
PlayerAdvance ==
    /\ YtMounted /\ Settled
    /\ playerState = "playing"
    /\ playerTime < MaxTime
    /\ playerTime' = playerTime + 1
    /\ lastNav' = NoNav /\ navFrom' = NoFrom
    /\ UNCHANGED <<routeVars, splitVars, uploadVars, instVars, pdfVars, currentTimestamp, ytRef, ytApi,
                   apiCallback, ytStage, player, isPlaying, exposePending,
                   playerState, chatVars, markVars, now, lastReply, droppedSeek, missedJump>>

\* YT.Player.playVideo of the IFrame API.
PlayVideoState(st) == "playing"

\* Mutant: seekTo without the playVideo call.
seekTo_NoPlay(timestamp) ==
    IF ~player
      THEN UNCHANGED <<playerTime, playerState, isPlaying>>
      ELSE /\ playerTime' = timestamp
           /\ playerState' = PlayerSeekState(playerState)
           /\ isPlaying' = (playerState' = "playing")

\* YouTubePlayer.seekTo, the function behind youtubePlayerRef.current:
\* player.seekTo(timestamp) and then player.playVideo().
seekTo(timestamp) ==
    IF ~player
      THEN UNCHANGED <<playerTime, playerState, isPlaying>>
      ELSE /\ playerTime' = timestamp
           /\ playerState' = PlayVideoState(PlayerSeekState(playerState))
           /\ isPlaying' = (playerState' = "playing")

\* ------------------------------------------------------- navigation
\* Mutant: a stream citation clicked before the player is exposed is kept
\* in currentTimestamp, the way a document citation is kept in currentPage.
handleSourceNavigate_Buffered(source) ==
    IF source.type = "pdf" /\ mode = "pdf"
      THEN /\ currentPage' = source.page
           /\ UNCHANGED <<currentTimestamp, playerTime, playerState, isPlaying>>
      ELSE IF source.type = "youtube" /\ mode = "youtube"
        THEN IF ytRef
               THEN /\ seekTo(source.timestamp)
                    /\ UNCHANGED <<currentPage, currentTimestamp>>
               ELSE /\ currentTimestamp' = source.timestamp
                    /\ UNCHANGED <<currentPage, playerTime, playerState,
                                   isPlaying>>
        ELSE UNCHANGED <<currentPage, currentTimestamp, playerTime,
                         playerState, isPlaying>>

\* Mutant: the dispatch looks at the session's mode only, not at the
\* citation's type; a field the citation lacks reads as undefined (0).
handleSourceNavigate_ByMode(source) ==
    IF mode = "pdf"
      THEN /\ currentPage' = IF source.type = "pdf" THEN source.page ELSE 0
           /\ UNCHANGED <<currentTimestamp, playerTime, playerState, isPlaying>>
      ELSE IF mode = "youtube"
        THEN /\ IF ytRef
                  THEN seekTo(IF source.type = "youtube"
                                THEN source.timestamp ELSE 0)
                  ELSE UNCHANGED <<playerTime, playerState, isPlaying>>
             /\ UNCHANGED <<currentPage, currentTimestamp>>
        ELSE UNCHANGED <<currentPage, currentTimestamp, playerTime,
                         playerState, isPlaying>>

\* SplitViewChat.handleSourceNavigate.
handleSourceNavigate(source) ==
    IF source.type = "pdf" /\ mode = "pdf"
      THEN /\ currentPage' = source.page
           /\ UNCHANGED <<currentTimestamp, playerTime, playerState, isPlaying>>
      ELSE IF source.type = "youtube" /\ mode = "youtube"
        THEN /\ IF ytRef
                  THEN seekTo(source.timestamp)
                  ELSE UNCHANGED <<playerTime, playerState, isPlaying>>
             /\ UNCHANGED <<currentPage, currentTimestamp>>
        ELSE UNCHANGED <<currentPage, currentTimestamp, playerTime,
                         playerState, isPlaying>>

\* SourceCard.handleClick.
handleClick(source) ==
    IF source.type = "pdf"
      THEN handleSourceNavigate(Pdf(source.page))
      ELSE IF source.type = "youtube"
        THEN handleSourceNavigate(Yt(source.timestamp))
        ELSE UNCHANGED <<currentPage, currentTimestamp, playerTime,
                         playerState, isPlaying>>

Range(s) == {s[i] : i \in 1 .. Len(s)}

\* Message: the source cards on screen, those of the assistant messages.
RenderedSources ==
    UNION {Range(messages[i].sources) :
             i \in {j \in 1 .. Len(messages) : messages[j].role = "assistant"}}

\* The user clicks a source card.
SourceCardClick(source) ==
    /\ screen = "chat" /\ Settled
    /\ source \in RenderedSources
    /\ handleClick(source)
    /\ lastNav' = source
    /\ navFrom' = [page |-> pageNumber, numPages |-> numPages,
                   time |-> playerTime, state |-> playerState]
    /\ droppedSeek' = (droppedSeek
                       \/ (source.type = "youtube" /\ mode = "youtube"
                           /\ ytStage # "ready"))
    /\ UNCHANGED <<routeVars, splitVars, uploadVars, instVars, numPages, pageNumber, pdfLoading, pdfError,
                   depInitialPage, depPageNumber, ytRef, ytApi, apiCallback,
                   ytStage, player, exposePending, chatVars, markVars, now, lastReply,
                   missedJump>>

\* -------------------------------------------------------- ChatContainer
\* The messages handleSend builds.
UserMessage(id, question) ==
    [id |-> id, role |-> "user", content |-> question]

\* Mutant: the assistant message is built without the returned sources.
BotMessage_NoSources(id, question, response) ==
    [id |-> id, role |-> "assistant", content |-> response.answer,
     question |-> question, sources |-> <<>>]

BotMessage(id, question, response) ==
    [id |-> id, role |-> "assistant", content |-> response.answer,
     question |-> question,
     sources |-> IF response.hasSources THEN response.sources ELSE <<>>]

ErrorText(message) ==
    <<"Sorry, I encountered an error: ", message, ". Please try again.">>

ErrorMessage(id, message) ==
    [id |-> id, role |-> "assistant", content |-> ErrorText(message),
     sources |-> <<>>]

\* What POST /query can answer: {answer, sources}, sources possibly absent.
Responses ==
    [answer : Answers, hasSources : {TRUE}, sources : SourceLists]
    \cup [answer : Answers, hasSources : {FALSE}, sources : {<<>>}]

RemoveAt(s, i) == SubSeq(s, 1, i - 1) \o SubSeq(s, i + 1, Len(s))

\* Mutant: handleSubmit without the !loading test.
CanSubmit_NoLoadingTest == screen = "chat"

\* ChatInput.handleSubmit calls onSend only for a non-empty input and
\* while the loading prop is false.
CanSubmit == screen = "chat" /\ ~loading

\* Mutant: the ask is started without setting LOADING.
handleSend_NoLoading(question) ==
    /\ messages' = Append(messages, UserMessage(now, question))
    /\ loading' = loading
    /\ pending' = Append(pending, [question |-> question, live |-> TRUE])

\* ChatContainer.handleSend up to its await.
handleSend(question) ==
    /\ messages' = Append(messages, UserMessage(now, question))
    /\ loading' = TRUE
    /\ pending' = Append(pending, [question |-> question, live |-> TRUE])

\* ChatContainer effect on [messages]: scrollToBottom.  It runs with the
\* render that follows a change of messages and feeds nothing back, so it
\* is taken with the step that changes messages.
scrollToBottom == scrolledTo' = 0

\* The user submits a question (submit button or Enter).
Submit(question) ==
    /\ CanSubmit /\ Settled
    /\ Len(messages) < MaxMsgs
    /\ Len(pending) < MaxPending
    /\ handleSend(question)
    /\ scrollToBottom
    /\ lastReply' = NoReply
    /\ UNCHANGED <<routeVars, splitVars, uploadVars, instVars, pdfVars, ytVars, bookmarks, lastOp, bookmarksPanelOpen,
                   ring, timers, now, lastNav, navFrom, droppedSeek, missedJump>>

\* ChatContainer.handleSend called as it stands, whatever loading is: the
\* function tests nothing before it appends and awaits.
handleSendCall(question) ==
    /\ screen = "chat" /\ Settled
    /\ Len(messages) < MaxMsgs
    /\ Len(pending) < MaxPending
    /\ handleSend(question)
    /\ scrollToBottom
    /\ lastReply' = NoReply
    /\ UNCHANGED <<routeVars, splitVars, uploadVars, instVars, pdfVars, ytVars, bookmarks, lastOp, bookmarksPanelOpen,
                   ring, timers, now, lastNav, navFrom, droppedSeek, missedJump>>

\* Mutant: the answer is put right behind the question it answers.
handleSendSuccess_BehindQuestion(question, response) ==
    LET k == CHOOSE i \in 1 .. Len(messages) :
                 /\ messages[i].role = "user" /\ messages[i].content = question
                 /\ \A j \in 1 .. (i - 1) :
                        ~(messages[j].role = "user" /\ messages[j].content = question)
    IN /\ messages' = SubSeq(messages, 1, k)
                        \o <<BotMessage(now + 1, question, response)>>
                        \o SubSeq(messages, k + 1, Len(messages))
       /\ loading' = FALSE

\* Mutant: the message is appended to the transcript handleSend was
\* called with, setMessages([...messages, botMessage]), which lacks the
\* question just asked.
handleSendSuccess_StaleMessages(question, response) ==
    /\ messages' = Append(SubSeq(messages, 1, Len(messages) - 1),
                          BotMessage(now + 1, question, response))
    /\ loading' = FALSE

\* ChatContainer.handleSend after queryDocuments resolved: try and finally.
handleSendSuccess(question, response) ==
    /\ messages' = Append(messages, BotMessage(now + 1, question, response))
    /\ loading' = FALSE

\* Mutant: the failure path without the finally block.
handleSendFailure_NoFinally(message) ==
    /\ messages' = Append(messages, ErrorMessage(now + 1, message))
    /\ loading' = loading

\* ChatContainer.handleSend after queryDocuments rejected: catch and finally.
handleSendFailure(message) ==
    /\ messages' = Append(messages, ErrorMessage(now + 1, message))
    /\ loading' = FALSE

\* Mutant: the transcript state outlives the chat screen, so a continuation
\* started under an earlier screen still writes it.
Delivers_AfterUnmount(req) == TRUE

\* Whether the state updates of a call's continuation take effect: React
\* drops the updates of a component that has been unmounted.
Delivers(req) == req.live

\* The answer service responds to the i-th call in flight.
QuerySucceeds(i, response) ==
    /\ i \in 1 .. Len(pending)
    /\ Settled
    /\ IF Delivers(pending[i])
         THEN handleSendSuccess(pending[i].question, response) /\ scrollToBottom
         ELSE UNCHANGED <<messages, loading, scrolledTo>>
    /\ pending' = RemoveAt(pending, i)
    /\ lastReply' = [kind |-> "ok", live |-> pending[i].live,
                     question |-> pending[i].question, response |-> response]
    /\ UNCHANGED <<routeVars, splitVars, uploadVars, instVars, pdfVars, ytVars, bookmarks, lastOp, bookmarksPanelOpen,
                   ring, timers, now, lastNav, navFrom, droppedSeek, missedJump>>

\* The answer service fails the i-th call in flight.
QueryFails(i, message) ==
    /\ i \in 1 .. Len(pending)
    /\ Settled
    /\ IF Delivers(pending[i])
         THEN handleSendFailure(message) /\ scrollToBottom
         ELSE UNCHANGED <<messages, loading, scrolledTo>>
    /\ pending' = RemoveAt(pending, i)
    /\ lastReply' = [kind |-> "fail", live |-> pending[i].live,
                     question |-> pending[i].question, message |-> message]
    /\ UNCHANGED <<routeVars, splitVars, uploadVars, instVars, pdfVars, ytVars, bookmarks, lastOp, bookmarksPanelOpen,
                   ring, timers, now, lastNav, navFrom, droppedSeek, missedJump>>

\* Time passes: Date.now() grows.
Tick ==
    /\ now < MaxClock
    /\ now' = now + 1
    /\ UNCHANGED <<routeVars, splitVars, uploadVars, instVars, pdfVars, ytVars, chatVars, markVars, histVars>>

\* ------------------------------------------------------ BookmarkContext
\* Mutant: only the oldest bookmark is looked at.
isBookmarked_FirstOnly(messageId) ==
    bookmarks # <<>> /\ bookmarks[1].id = messageId

\* BookmarkProvider.isBookmarked.
isBookmarked(messageId) ==
    \E k \in 1 .. Len(bookmarks) : bookmarks[k].id = messageId

\* Mutant: an add for an id that is there overwrites its bookmark.
addBookmark_Overwrite(message) ==
    bookmarks' =
        IF \E k \in 1 .. Len(bookmarks) : bookmarks[k].id = message.id
          THEN [k \in 1 .. Len(bookmarks) |->
                  IF bookmarks[k].id = message.id
                    THEN [bookmarkedAt |-> now] @@ message
                    ELSE bookmarks[k]]
          ELSE Append(bookmarks, [bookmarkedAt |-> now] @@ message)

\* Mutant: an add for an id that is there renews its bookmarkedAt.
addBookmark_Touch(message) ==
    bookmarks' =
        IF \E k \in 1 .. Len(bookmarks) : bookmarks[k].id = message.id
          THEN [k \in 1 .. Len(bookmarks) |->
                  IF bookmarks[k].id = message.id
                    THEN [bookmarks[k] EXCEPT !.bookmarkedAt = now]
                    ELSE bookmarks[k]]
          ELSE Append(bookmarks, [bookmarkedAt |-> now] @@ message)

\* BookmarkProvider.addBookmark: { ...message, bookmarkedAt: Date.now() }
\* unless a bookmark with the id is there.
addBookmark(message) ==
    bookmarks' = IF \E k \in 1 .. Len(bookmarks) : bookmarks[k].id = message.id
                   THEN bookmarks
                   ELSE Append(bookmarks, [bookmarkedAt |-> now] @@ message)

KeepsOtherIds(b, messageId) == b.id # messageId

\* Mutant: the bookmark is taken out together with all that follow it.
removeBookmark_Truncate(messageId) ==
    bookmarks' =
        IF \E k \in 1 .. Len(bookmarks) : bookmarks[k].id = messageId
          THEN SubSeq(bookmarks, 1,
                      (CHOOSE k \in 1 .. Len(bookmarks) :
                          /\ bookmarks[k].id = messageId
                          /\ \A j \in 1 .. (k - 1) : bookmarks[j].id # messageId) - 1)
          ELSE bookmarks

\* BookmarkProvider.removeBookmark.
removeBookmark(messageId) ==
    bookmarks' = SelectSeq(bookmarks, LAMBDA b : KeepsOtherIds(b, messageId))

\* Mutant: clearing drops the oldest bookmark only.
clearBookmarks_DropOldest ==
    bookmarks' = IF bookmarks = <<>> THEN <<>> ELSE Tail(bookmarks)

\* BookmarkProvider.clearBookmarks.
clearBookmarks == bookmarks' = <<>>

\* Ids a message can carry: Date.now() or Date.now() + 1.
MessageIds == 0 .. (MaxClock + 1)

\* The objects a consumer hands to addBookmark, shaped as Message builds
\* them; two of them with one id differ in their content.
StoreMessages ==
    [id : MessageIds, question : Questions, answer : Answers, sources : {<<>>}]

\* A consumer of useBookmarks() calls addBookmark(message).
addBookmarkCall(message) ==
    /\ Len(bookmarks) < MaxBookmarks \/ isBookmarked(message.id)
    /\ addBookmark(message)
    /\ lastOp' = [op |-> "add", message |-> message, at |-> now,
                  before |-> bookmarks]
    /\ UNCHANGED <<routeVars, splitVars, uploadVars, instVars, pdfVars, ytVars, chatVars, bookmarksPanelOpen,
                   scrolledTo, ring, timers, now, histVars>>

\* A consumer of useBookmarks() calls removeBookmark(messageId).
removeBookmarkCall(messageId) ==
    /\ removeBookmark(messageId)
    /\ lastOp' = [op |-> "remove", id |-> messageId, before |-> bookmarks]
    /\ UNCHANGED <<routeVars, splitVars, uploadVars, instVars, pdfVars, ytVars, chatVars, bookmarksPanelOpen,
                   scrolledTo, ring, timers, now, histVars>>

\* A consumer of useBookmarks() calls clearBookmarks().
clearBookmarksCall ==
    /\ clearBookmarks
    /\ lastOp' = [op |-> "clear", before |-> bookmarks]
    /\ UNCHANGED <<routeVars, splitVars, uploadVars, instVars, pdfVars, ytVars, chatVars, bookmarksPanelOpen,
                   scrolledTo, ring, timers, now, histVars>>

\* A consumer of useBookmarks() calls isBookmarked(messageId).
isBookmarkedCall(messageId) ==
    /\ lastOp' = [op |-> "isBookmarked", id |-> messageId,
                  result |-> isBookmarked(messageId), before |-> bookmarks]
    /\ UNCHANGED <<routeVars, splitVars, uploadVars, instVars, pdfVars, ytVars, chatVars, bookmarks,
                   bookmarksPanelOpen, scrolledTo, ring, timers, now, histVars>>

\* Message: the object handed to BookmarkButton.  message.question is
\* undefined for a message built without it; the field is then left out.
BookmarkPayload(message) ==
    IF "question" \in DOMAIN message
      THEN [id |-> message.id, question |-> message.question,
            answer |-> message.content, sources |-> message.sources]
      ELSE [id |-> message.id, answer |-> message.content,
            sources |-> message.sources]

\* BookmarkButton.handleClick, on the button under the i-th message; the
\* button is rendered for assistant messages only.
BookmarkButtonClick(i) ==
    /\ screen = "chat" /\ Settled
    /\ i \in 1 .. Len(messages)
    /\ messages[i].role # "user"
    /\ IF isBookmarked(messages[i].id)
         THEN removeBookmark(messages[i].id)
         ELSE /\ Len(bookmarks) < MaxBookmarks
              /\ addBookmark(BookmarkPayload(messages[i]))
    /\ lastOp' = NoOp
    /\ UNCHANGED <<routeVars, splitVars, uploadVars, instVars, pdfVars, ytVars, chatVars, bookmarksPanelOpen,
                   scrolledTo, ring, timers, now, histVars>>

\* ChatContainer header: the Bookmarks button.
OpenBookmarksPanel ==
    /\ screen = "chat" /\ Settled
    /\ ~bookmarksPanelOpen
    /\ bookmarksPanelOpen' = TRUE
    /\ UNCHANGED <<routeVars, splitVars, uploadVars, instVars, pdfVars, ytVars, chatVars, bookmarks, lastOp,
                   scrolledTo, ring, timers, now, histVars>>

\* BookmarksPanel: backdrop or close button, onClose.
CloseBookmarksPanel ==
    /\ screen = "chat" /\ Settled
    /\ bookmarksPanelOpen
    /\ bookmarksPanelOpen' = FALSE
    /\ UNCHANGED <<routeVars, splitVars, uploadVars, instVars, pdfVars, ytVars, chatVars, bookmarks, lastOp,
                   scrolledTo, ring, timers, now, histVars>>

\* document.getElementById('message-<id>'): the first rendered message with
\* the id, 0 when there is none.
ElementOf(messageId) ==
    IF \E i \in 1 .. Len(messages) : messages[i].id = messageId
      THEN CHOOSE i \in 1 .. Len(messages) :
             /\ messages[i].id = messageId
             /\ \A j \in 1 .. (i - 1) : messages[j].id # messageId
      ELSE 0

\* Mutant: when no element carries the id, the last message is scrolled to
\* and emphasised instead.
scrollToMessage_Fallback(messageId) ==
    IF ElementOf(messageId) # 0
      THEN /\ scrolledTo' = ElementOf(messageId)
           /\ ring' = ring \cup {ElementOf(messageId)}
           /\ timers' = Append(timers, ElementOf(messageId))
      ELSE /\ scrolledTo' = Len(messages)
           /\ ring' = ring \cup {Len(messages)}
           /\ timers' = Append(timers, Len(messages))

\* ChatContainer.scrollToMessage.
scrollToMessage(messageId) ==
    IF ElementOf(messageId) # 0
      THEN /\ scrolledTo' = ElementOf(messageId)
           /\ ring' = ring \cup {ElementOf(messageId)}
           /\ timers' = Append(timers, ElementOf(messageId))
      ELSE UNCHANGED <<scrolledTo, ring, timers>>

\* BookmarksPanel: click on the k-th entry, onNavigate(bookmark.id) and
\* onClose().
BookmarkEntryClick(k) ==
    /\ screen = "chat" /\ Settled
    /\ bookmarksPanelOpen
    /\ k \in 1 .. Len(bookmarks)
    /\ Len(timers) < MaxTimers
    /\ scrollToMessage(bookmarks[k].id)
    /\ bookmarksPanelOpen' = FALSE
    /\ missedJump' = (missedJump \/ ElementOf(bookmarks[k].id) = 0)
    /\ UNCHANGED <<routeVars, splitVars, uploadVars, instVars, pdfVars, ytVars, chatVars, bookmarks, lastOp, now,
                   lastReply, lastNav, navFrom, droppedSeek>>

\* Mutant: the remove button's click also reaches the entry's own handler.
BookmarkEntryRemove_Bubbles(k) ==
    /\ screen = "chat" /\ Settled
    /\ bookmarksPanelOpen
    /\ k \in 1 .. Len(bookmarks)
    /\ Len(timers) < MaxTimers
    /\ removeBookmark(bookmarks[k].id)
    /\ lastOp' = NoOp
    /\ scrollToMessage(bookmarks[k].id)
    /\ bookmarksPanelOpen' = FALSE
    /\ UNCHANGED <<routeVars, splitVars, uploadVars, instVars, pdfVars, ytVars,
                   chatVars, now, histVars>>

\* BookmarksPanel: the remove button of the k-th entry (stopPropagation).
BookmarkEntryRemove(k) ==
    /\ screen = "chat" /\ Settled
    /\ bookmarksPanelOpen
    /\ k \in 1 .. Len(bookmarks)
    /\ removeBookmark(bookmarks[k].id)
    /\ lastOp' = NoOp
    /\ UNCHANGED <<routeVars, splitVars, uploadVars, instVars, pdfVars, ytVars, chatVars, bookmarksPanelOpen,
                   scrolledTo, ring, timers, now, histVars>>

\* Mutant: Clear All Bookmarks clears whatever the prompt's answer.
ClearAllClick_NoPrompt(confirmed) ==
    /\ screen = "chat" /\ Settled
    /\ bookmarksPanelOpen
    /\ Len(bookmarks) > 0
    /\ clearBookmarks /\ lastOp' = NoOp
    /\ UNCHANGED <<routeVars, splitVars, uploadVars, instVars, pdfVars, ytVars, chatVars,
                   bookmarksPanelOpen, scrolledTo, ring, timers, now,
                   histVars>>

\* BookmarksPanel: Clear All Bookmarks, shown while the store is not empty;
\* confirmed is the user's answer to the confirm() prompt.
ClearAllClick(confirmed) ==
    /\ screen = "chat" /\ Settled
    /\ bookmarksPanelOpen
    /\ Len(bookmarks) > 0
    /\ IF confirmed
         THEN clearBookmarks /\ lastOp' = NoOp
         ELSE UNCHANGED <<bookmarks, lastOp>>
    /\ UNCHANGED <<routeVars, splitVars, uploadVars, instVars, pdfVars, ytVars, chatVars, bookmarksPanelOpen,
                   scrolledTo, ring, timers, now, histVars>>

\* The oldest setTimeout callback of scrollToMessage runs (all have the
\* same delay): it takes the highlight classes off its element.
HighlightTimeout ==
    /\ screen = "chat" /\ Settled
    /\ timers # <<>>
    /\ ring' = ring \ {Head(timers)}
    /\ timers' = Tail(timers)
    /\ UNCHANGED <<routeVars, splitVars, uploadVars, instVars, pdfVars, ytVars, chatVars, bookmarks, lastOp,
                   bookmarksPanelOpen, scrolledTo, now, histVars>>

\* ------------------------------------------------------------ SplitView
\* SplitView is rendered once SplitViewChat's guard has passed.
SplitMounted == screen = "chat" /\ (file \/ videoId)

\* The drag effect has run for the current isDragging.
SplitSettled == depDragging = isDragging

\* Where the pointer can be, as ((clientX - left) / width) * 100.
PointerWidths == (minWidth - MaxOvershoot) .. (maxWidth + MaxOvershoot)

\* SplitView effect on [isDragging, minWidth, maxWidth]: the cleanup of the
\* previous run, then addEventListener for both handlers if isDragging.
DragEffect ==
    /\ SplitMounted
    /\ depDragging # isDragging
    /\ listeners' = DragCleanup(listeners) + (IF isDragging THEN 1 ELSE 0)
    /\ depDragging' = isDragging
    /\ UNCHANGED <<routeVars, uploadVars, instVars, leftWidth, isDragging, pdfVars, ytVars, chatVars,
                   markVars, now, histVars>>

\* Right panel: style width `${100 - leftWidth}%`.
rightWidth == 100 - leftWidth

\* Resizer: onMouseDown.
ResizerMouseDown ==
    /\ SplitMounted /\ SplitSettled
    /\ isDragging' = TRUE
    /\ UNCHANGED <<routeVars, uploadVars, instVars, leftWidth, depDragging, listeners, pdfVars,
                   ytVars, chatVars, markVars, now, histVars>>

\* Mutant: the computed width is taken without the range test.
handleMouseMove_Unchecked(newWidth) ==
    IF ~depDragging THEN leftWidth ELSE newWidth

\* Mutant: a width outside the bounds is moved to the nearer bound.
handleMouseMove_Clamp(newWidth) ==
    IF ~depDragging THEN leftWidth
    ELSE IF newWidth < minWidth THEN minWidth
    ELSE IF newWidth > maxWidth THEN maxWidth
    ELSE newWidth

\* SplitView.handleMouseMove of the run that attached it (its isDragging is
\* the one of that run): the left width it leaves.
handleMouseMove(newWidth) ==
    IF ~depDragging THEN leftWidth
    ELSE IF newWidth >= minWidth /\ newWidth <= maxWidth THEN newWidth
    ELSE leftWidth

\* The pointer moves, anywhere in the document: the attached mousemove
\* listeners run.
DocumentMouseMove(newWidth) ==
    /\ screen = "chat" /\ SplitSettled
    /\ leftWidth' = IF listeners > 0 THEN handleMouseMove(newWidth)
                    ELSE leftWidth
    /\ UNCHANGED <<routeVars, uploadVars, instVars, isDragging, depDragging, listeners, pdfVars,
                   ytVars, chatVars, markVars, now, histVars>>

\* Mutant: the drag ends only when the button is released over the divider.
handleMouseUp_OverResizer(overResizer) ==
    IF overResizer THEN FALSE ELSE isDragging

\* SplitView.handleMouseUp: the isDragging it leaves.
handleMouseUp(overResizer) == FALSE

\* The mouse button is released, over the divider or elsewhere in the
\* document: the attached mouseup listeners run.
DocumentMouseUp(overResizer) ==
    /\ screen = "chat" /\ SplitSettled
    /\ isDragging' = IF listeners > 0 THEN handleMouseUp(overResizer)
                     ELSE isDragging
    /\ UNCHANGED <<routeVars, uploadVars, instVars, leftWidth, depDragging, listeners, pdfVars,
                   ytVars, chatVars, markVars, now, histVars>>

\* ---------------------------------------------------------------- Upload
\* location.state of Upload's two navigate('/chat') calls.
PdfDescriptor == [file |-> TRUE, videoId |-> FALSE, mode |-> "pdf"]

\* The response of a successful uploadYouTube call carries video_id.
uploadYouTubeResponse == [video_id |-> TRUE]

YoutubeDescriptor(response) ==
    [file |-> FALSE, videoId |-> response.video_id, mode |-> "youtube"]

\* What the file input's change event carries: no file, a file within
\* MAX_PDF_SIZE_MB, a file above it.
FileChoices == {"none", "ok", "tooLarge"}

\* The url field of the form, trimmed: empty or not.
UrlChoices == {"", "u"}

\* Upload: setUploading(true), setError(null), then the await of the call.
StartUpload(kind) ==
    /\ Len(uploadCalls) < MaxUploads
    /\ uploading' = TRUE /\ uploadError' = FALSE
    /\ uploadCalls' = Append(uploadCalls, [kind |-> kind, live |-> TRUE])
    /\ UNCHANGED navTimers

\* Upload.handlePDFUpload up to its await; the input is disabled while
\* uploading.
handlePDFUpload(choice) ==
    /\ screen = "home" /\ ~uploading
    /\ CASE choice = "none" -> UNCHANGED uploadVars
         [] choice = "tooLarge" ->
              /\ uploadError' = TRUE
              /\ UNCHANGED <<uploading, uploadCalls, navTimers>>
         [] OTHER -> StartUpload("pdf")
    /\ UNCHANGED <<routeVars, splitVars, instVars, pdfVars, ytVars, chatVars, markVars,
                   now, histVars>>

\* Upload.handleYouTubeUpload up to its await; the submit button is
\* disabled while uploading.
handleYouTubeUpload(url) ==
    /\ screen = "home" /\ ~uploading
    /\ IF url = "" THEN UNCHANGED uploadVars ELSE StartUpload("youtube")
    /\ UNCHANGED <<routeVars, splitVars, instVars, pdfVars, ytVars, chatVars, markVars,
                   now, histVars>>

\* The descriptor the continuation of a call hands to its timer.
DescriptorOf(call) ==
    IF call.kind = "pdf" THEN PdfDescriptor
    ELSE YoutubeDescriptor(uploadYouTubeResponse)

\* Mutant: the timer is started whether the call succeeded or not.
uploadRejected_Navigates(call) == Append(navTimers, DescriptorOf(call))

\* Upload handlers, catch: no timer is started.
uploadRejected(call) == navTimers

\* uploadPDF / uploadYouTube resolves: setResult, the navigation timer is
\* started, then finally.  The set-state calls of an unmounted Upload do
\* nothing; the timer is started all the same.
UploadSucceeds(i) ==
    /\ i \in 1 .. Len(uploadCalls)
    /\ Len(navTimers) < MaxNavTimers
    /\ navTimers' = Append(navTimers, DescriptorOf(uploadCalls[i]))
    /\ uploadCalls' = RemoveAt(uploadCalls, i)
    /\ uploading' = IF uploadCalls[i].live THEN FALSE ELSE uploading
    /\ UNCHANGED uploadError
    /\ UNCHANGED <<routeVars, splitVars, instVars, pdfVars, ytVars, chatVars, markVars,
                   now, histVars>>

\* uploadPDF / uploadYouTube rejects: catch sets the error, then finally.
UploadFails(i) ==
    /\ i \in 1 .. Len(uploadCalls)
    /\ navTimers' = uploadRejected(uploadCalls[i])
    /\ Len(navTimers') <= MaxNavTimers
    /\ uploadCalls' = RemoveAt(uploadCalls, i)
    /\ uploading' = IF uploadCalls[i].live THEN FALSE ELSE uploading
    /\ uploadError' = IF uploadCalls[i].live THEN TRUE ELSE uploadError
    /\ UNCHANGED <<routeVars, splitVars, instVars, pdfVars, ytVars, chatVars, markVars,
                   now, histVars>>

\* The oldest navigation timer runs while the upload or home screen is
\* shown: navigate('/chat', {state}).  Upload unmounts, and /chat is
\* rendered as in EnterChat.  A timer that runs while /chat is shown
\* re-renders it in place and is not followed here.
NavigateTimer ==
    /\ navTimers # <<>>
    /\ screen = "home"
    /\ screen' = GuardScreen(Head(navTimers))
    /\ mode' = Head(navTimers).mode
    /\ file' = Head(navTimers).file
    /\ videoId' = Head(navTimers).videoId
    /\ navTimers' = Tail(navTimers)
    /\ uploading' = FALSE /\ uploadError' = FALSE
    /\ uploadCalls' = Abandon(uploadCalls)
    /\ MountChat
    /\ IF Head(navTimers).mode = "youtube" /\ Head(navTimers).videoId
         THEN IF ytApi
                THEN /\ ytStage' = "created" /\ apiCallback' = apiCallback
                     /\ ytPlayers' = initPlayer(ytPlayers)
                ELSE /\ ytStage' = "none" /\ apiCallback' = "live"
                     /\ ytPlayers' = ytPlayers
         ELSE /\ ytStage' = "none" /\ apiCallback' = apiCallback
              /\ ytPlayers' = ytPlayers
    /\ UNCHANGED <<ytApi, listeners, pending, bookmarks, lastOp, now>>

\* ---------------------------------------------------------------- system
Next ==
    \/ OpenPdfChat
    \/ OpenYoutubeChat
    \/ LeaveChat
    \/ CommitEffects
    \/ \E n \in 1 .. MaxPages : onDocumentLoadSuccess(n)
    \/ onDocumentLoadError
    \/ goToPrevPage
    \/ goToNextPage
    \/ \E page \in CitedPages : TypePage(page)
    \/ YouTubeApiReady
    \/ onReady
    \/ ExposeEffect
    \/ togglePlay
    \/ PlayerAdvance
    \/ \E source \in Range(AllSources) : SourceCardClick(source)
    \/ \E question \in Questions : Submit(question)
    \/ \E i \in 1 .. MaxPending, response \in Responses : QuerySucceeds(i, response)
    \/ \E i \in 1 .. MaxPending, message \in Errors : QueryFails(i, message)
    \/ \E i \in 1 .. (MaxMsgs + 1) : BookmarkButtonClick(i)
    \/ OpenBookmarksPanel
    \/ CloseBookmarksPanel
    \/ \E k \in 1 .. MaxBookmarks : BookmarkEntryClick(k)
    \/ \E k \in 1 .. MaxBookmarks : BookmarkEntryRemove(k)
    \/ \E confirmed \in BOOLEAN : ClearAllClick(confirmed)
    \/ HighlightTimeout
    \/ DragEffect
    \/ ResizerMouseDown
    \/ \E newWidth \in PointerWidths : DocumentMouseMove(newWidth)
    \/ \E overResizer \in BOOLEAN : DocumentMouseUp(overResizer)
    \/ \E state \in LocationStates : EnterChat(state)
    \/ GoToHome
    \/ \E choice \in FileChoices : handlePDFUpload(choice)
    \/ \E url \in UrlChoices : handleYouTubeUpload(url)
    \/ \E i \in 1 .. MaxUploads : UploadSucceeds(i)
    \/ \E i \in 1 .. MaxUploads : UploadFails(i)
    \/ NavigateTimer
    \/ \E message \in StoreMessages : addBookmarkCall(message)
    \/ \E messageId \in MessageIds : removeBookmarkCall(messageId)
    \/ clearBookmarksCall
    \/ \E messageId \in MessageIds : isBookmarkedCall(messageId)
    \/ Tick

Spec == Init /\ [][Next]_vars

\* The content viewer, the transcript and the citation navigation of the
\* first chat session the application mounts, within one clock tick.
NextNav ==
    \/ OpenPdfChat
    \/ OpenYoutubeChat
    \/ CommitEffects
    \/ \E n \in 1 .. MaxPages : onDocumentLoadSuccess(n)
    \/ onDocumentLoadError
    \/ goToPrevPage
    \/ goToNextPage
    \/ \E page \in CitedPages : TypePage(page)
    \/ YouTubeApiReady
    \/ onReady
    \/ ExposeEffect
    \/ togglePlay
    \/ PlayerAdvance
    \/ \E source \in Range(AllSources) : SourceCardClick(source)
    \/ \E question \in Questions : Submit(question)
    \/ \E i \in 1 .. MaxPending, response \in Responses : QuerySucceeds(i, response)
    \/ \E i \in 1 .. MaxPending, message \in Errors : QueryFails(i, message)

SpecNav == Init /\ [][NextNav]_vars

\* The transcript over the sessions and the clock; the content never loads.
NextChat ==
    \/ OpenPdfChat
    \/ OpenYoutubeChat
    \/ LeaveChat
    \/ \E question \in Questions : Submit(question)
    \/ \E i \in 1 .. MaxPending, response \in Responses : QuerySucceeds(i, response)
    \/ \E i \in 1 .. MaxPending, message \in Errors : QueryFails(i, message)
    \/ Tick

SpecChat == Init /\ [][NextChat]_vars

\* One session of asks through the input, whose service calls all come to
\* an end: queryDocuments resolves or rejects for every call.
NextAnswered ==
    \/ OpenPdfChat
    \/ OpenYoutubeChat
    \/ \E question \in Questions : Submit(question)
    \/ \E i \in 1 .. MaxPending, response \in Responses : QuerySucceeds(i, response)
    \/ \E i \in 1 .. MaxPending, message \in Errors : QueryFails(i, message)

\* The answer service settles some call in flight.
ServiceSettles ==
    \/ \E i \in 1 .. MaxPending, response \in Responses : QuerySucceeds(i, response)
    \/ \E i \in 1 .. MaxPending, message \in Errors : QueryFails(i, message)

SpecAnswered == Init /\ [][NextAnswered]_vars /\ WF_vars(ServiceSettles)

\* handleSend under callers that do not wait for LOADING to clear.
NextConcurrent ==
    \/ OpenPdfChat
    \/ OpenYoutubeChat
    \/ \E question \in Questions : handleSendCall(question)
    \/ \E i \in 1 .. MaxPending, response \in Responses : QuerySucceeds(i, response)
    \/ \E i \in 1 .. MaxPending, message \in Errors : QueryFails(i, message)
    \/ Tick

SpecConcurrent == Init /\ [][NextConcurrent]_vars

\* The Bookmark Store under every sequence of calls of its four functions,
\* over the clock.
NextStore ==
    \/ \E message \in StoreMessages : addBookmarkCall(message)
    \/ \E messageId \in MessageIds : removeBookmarkCall(messageId)
    \/ clearBookmarksCall
    \/ \E messageId \in MessageIds : isBookmarkedCall(messageId)
    \/ Tick

\* A chat session as the store's consumers can find it: a two-page
\* document turned to page 2, one question asked and answered (the state
\* after OpenPdfChat, onDocumentLoadSuccess(2), goToNextPage, CommitEffects,
\* Submit("q1") and QuerySucceeds without sources).
AnsweredSession ==
    /\ screen = "chat" /\ mode = "pdf" /\ file = TRUE /\ videoId = FALSE
    /\ currentPage = 2 /\ numPages = 2 /\ pageNumber = 2
    /\ pdfLoading = FALSE /\ pdfError = FALSE
    /\ depInitialPage = 2 /\ depPageNumber = 2
    /\ currentTimestamp = 0
    /\ ytRef = FALSE /\ ytApi = FALSE /\ apiCallback = "none"
    /\ ytStage = "none" /\ player = FALSE
    /\ isPlaying = FALSE /\ exposePending = FALSE
    /\ playerTime = 0 /\ playerState = "unstarted"
    /\ messages = <<UserMessage(0, "q1"),
                    BotMessage(1, "q1", [answer |-> <<"a1">>,
                                         hasSources |-> FALSE, sources |-> <<>>])>>
    /\ loading = FALSE /\ pending = <<>>
    /\ bookmarks = <<>> /\ lastOp = NoOp
    /\ bookmarksPanelOpen = FALSE /\ scrolledTo = 0
    /\ ring = {} /\ timers = <<>>
    /\ closurePlayer = FALSE
    /\ leftWidth = defaultLeftWidth /\ isDragging = FALSE
    /\ depDragging = FALSE /\ listeners = 0
    /\ uploading = FALSE /\ uploadError = FALSE
    /\ uploadCalls = <<>> /\ navTimers = <<>>
    /\ ytPlayers = {}
    /\ now = 0
    /\ lastReply = [kind |-> "ok", live |-> TRUE, question |-> "q1",
                    response |-> [answer |-> <<"a1">>, hasSources |-> FALSE,
                                  sources |-> <<>>]]
    /\ lastNav = NoNav /\ navFrom = NoFrom /\ droppedSeek = FALSE
    /\ missedJump = FALSE

\* The store's functions are called on the upload page or in a session.
InitStore == Init \/ AnsweredSession

SpecStore == InitStore /\ [][NextStore]_vars

\* Asking and bookmarking over successive sessions, within one clock tick.
NextMarks ==
    \/ OpenPdfChat
    \/ OpenYoutubeChat
    \/ LeaveChat
    \/ \E question \in Questions : Submit(question)
    \/ \E i \in 1 .. MaxPending, response \in Responses : QuerySucceeds(i, response)
    \/ \E i \in 1 .. MaxPending, message \in Errors : QueryFails(i, message)
    \/ \E i \in 1 .. (MaxMsgs + 1) : BookmarkButtonClick(i)
    \/ OpenBookmarksPanel
    \/ CloseBookmarksPanel
    \/ \E k \in 1 .. MaxBookmarks : BookmarkEntryClick(k)
    \/ \E k \in 1 .. MaxBookmarks : BookmarkEntryRemove(k)
    \/ \E confirmed \in BOOLEAN : ClearAllClick(confirmed)
    \/ HighlightTimeout

SpecMarks == Init /\ [][NextMarks]_vars

\* Bookmarks followed in the session they were made in and in later ones,
\* within one clock tick.
NextOrphan ==
    \/ OpenPdfChat
    \/ LeaveChat
    \/ \E question \in Questions : Submit(question)
    \/ \E i \in 1 .. MaxPending, response \in Responses : QuerySucceeds(i, response)
    \/ \E i \in 1 .. (MaxMsgs + 1) : BookmarkButtonClick(i)
    \/ OpenBookmarksPanel
    \/ \E k \in 1 .. MaxBookmarks : BookmarkEntryClick(k)
    \/ HighlightTimeout

SpecOrphan == Init /\ [][NextOrphan]_vars

\* The split surface over successive sessions.
NextSplit ==
    \/ OpenPdfChat
    \/ OpenYoutubeChat
    \/ LeaveChat
    \/ DragEffect
    \/ ResizerMouseDown
    \/ \E newWidth \in PointerWidths : DocumentMouseMove(newWidth)
    \/ \E overResizer \in BOOLEAN : DocumentMouseUp(overResizer)

SpecSplit == Init /\ [][NextSplit]_vars

\* Uploads, their navigation timers, and the sessions they open.
NextUpload ==
    \/ \E choice \in FileChoices : handlePDFUpload(choice)
    \/ \E url \in UrlChoices : handleYouTubeUpload(url)
    \/ \E i \in 1 .. MaxUploads : UploadSucceeds(i)
    \/ \E i \in 1 .. MaxUploads : UploadFails(i)
    \/ NavigateTimer
    \/ LeaveChat
    \/ \E question \in Questions : Submit(question)

SpecUpload == Init /\ [][NextUpload]_vars

\* The bookmarks panel of one session, without jumps to messages; the
\* clock advances, so that two answers can carry different ids.
NextClear ==
    \/ OpenPdfChat
    \/ \E question \in Questions : Submit(question)
    \/ \E i \in 1 .. MaxPending, response \in Responses : QuerySucceeds(i, response)
    \/ \E i \in 1 .. (MaxMsgs + 1) : BookmarkButtonClick(i)
    \/ OpenBookmarksPanel
    \/ CloseBookmarksPanel
    \/ \E k \in 1 .. MaxBookmarks : BookmarkEntryRemove(k)
    \/ \E confirmed \in BOOLEAN : ClearAllClick(confirmed)
    \/ Tick

SpecClear == Init /\ [][NextClear]_vars

\* The document viewer under its own controls: no citation is clicked.
NextControls ==
    \/ OpenPdfChat
    \/ LeaveChat
    \/ CommitEffects
    \/ \E n \in 1 .. MaxPages : onDocumentLoadSuccess(n)
    \/ onDocumentLoadError
    \/ goToPrevPage
    \/ goToNextPage
    \/ \E page \in CitedPages : TypePage(page)
    \/ \E question \in Questions : Submit(question)
    \/ \E i \in 1 .. MaxPending, response \in Responses : QuerySucceeds(i, response)

SpecControls == Init /\ [][NextControls]_vars

\* The entries of the bookmarks panel in one session, over the clock: each
\* can be clicked or removed.
NextEntries ==
    \/ OpenPdfChat
    \/ \E question \in Questions : Submit(question)
    \/ \E i \in 1 .. MaxPending, response \in Responses : QuerySucceeds(i, response)
    \/ Tick
    \/ \E i \in 1 .. (MaxMsgs + 1) : BookmarkButtonClick(i)
    \/ OpenBookmarksPanel
    \/ \E k \in 1 .. MaxBookmarks : BookmarkEntryClick(k)
    \/ \E k \in 1 .. MaxBookmarks : BookmarkEntryRemove(k)
    \/ HighlightTimeout

SpecEntries == Init /\ [][NextEntries]_vars

\* The route /chat entered with any location.state, and the split surface
\* it renders.
NextEntry ==
    \/ \E state \in LocationStates : EnterChat(state)
    \/ GoToHome
    \/ LeaveChat
    \/ DragEffect
    \/ ResizerMouseDown
    \/ \E newWidth \in PointerWidths : DocumentMouseMove(newWidth)
    \/ \E overResizer \in BOOLEAN : DocumentMouseUp(overResizer)

SpecEntry == Init /\ [][NextEntry]_vars

\* YouTube sessions opened and left, with the API script arriving, the
\* player becoming ready and being played, and questions that fail.
NextPlayer ==
    \/ OpenYoutubeChat
    \/ LeaveChat
    \/ YouTubeApiReady
    \/ onReady
    \/ ExposeEffect
    \/ togglePlay
    \/ PlayerAdvance
    \/ \E question \in Questions : Submit(question)
    \/ \E i \in 1 .. MaxPending, message \in Errors : QueryFails(i, message)

SpecPlayer == Init /\ [][NextPlayer]_vars

\* Everything the user can do in the chat panel of the first session:
\* asking, clicking citations, bookmarking and following bookmarks.
NextPanel ==
    \/ OpenPdfChat
    \/ OpenYoutubeChat
    \/ CommitEffects
    \/ \E source \in Range(AllSources) : SourceCardClick(source)
    \/ \E question \in Questions : Submit(question)
    \/ \E i \in 1 .. MaxPending, response \in Responses : QuerySucceeds(i, response)
    \/ \E i \in 1 .. MaxPending, message \in Errors : QueryFails(i, message)
    \/ \E i \in 1 .. (MaxMsgs + 1) : BookmarkButtonClick(i)
    \/ OpenBookmarksPanel
    \/ CloseBookmarksPanel
    \/ \E k \in 1 .. MaxBookmarks : BookmarkEntryClick(k)
    \/ \E k \in 1 .. MaxBookmarks : BookmarkEntryRemove(k)
    \/ \E confirmed \in BOOLEAN : ClearAllClick(confirmed)
    \/ HighlightTimeout

SpecPanel == Init /\ [][NextPanel]_vars

\* ================================================================ claims
Loaded == PdfMounted /\ ~pdfLoading /\ ~pdfError

\* C1: in a DOCUMENT session whose document has loaded with N pages, after
\* a click on a citation of page p, 1 <= p <= N, and once the effects have
\* run, the viewer's current page is p, whatever it was before.
C1_CitationSetsPage ==
    (Loaded /\ Settled /\ lastNav.type = "pdf" /\ lastNav.page \in 1 .. numPages)
        => pageNumber = lastNav.page

\* C1 witness: the document is loaded, the viewer was paged to page 2 and
\* a citation of page 1 brought it back to page 1.
C1_Witness ==
    /\ Loaded /\ Settled
    /\ lastNav = Pdf(1) /\ navFrom.page = 2 /\ navFrom.numPages = 2
    /\ pageNumber = 1

\* C2: a citation click for a page outside 1..totalPages leaves the
\* viewer's current page as it was before the click.
C2_OutOfRangeIgnored ==
    (PdfMounted /\ lastNav.type = "pdf" /\ navFrom.numPages > 0
        /\ lastNav.page \notin 1 .. navFrom.numPages)
        => pageNumber = navFrom.page

\* C3: once totalPages is known, 1 <= currentPage <= totalPages.
C3_PageInRange ==
    Loaded => (1 <= pageNumber /\ pageNumber <= numPages)

\* C4: once a stream citation has been clicked before the player reported
\* ready, no step up to and including the one in which the player reports
\* ready changes the player's position or play state.
C4_PreReadySeekDropped ==
    [][(YtMounted /\ droppedSeek' /\ ytStage # "ready")
         => (playerTime' = playerTime /\ playerState' = playerState)]_vars

\* C4 witness: a stream citation was clicked before readiness, the player
\* has since reported ready and been exposed, and it is still unstarted at 0.
C4_Witness ==
    /\ YtMounted /\ droppedSeek
    /\ ytStage = "ready" /\ ytRef
    /\ playerTime = 0 /\ playerState = "unstarted"

\* C5: once the player has reported ready, a click on a stream citation of
\* timestamp t leaves the player at t and playing.
C5_SeekPlays ==
    (YtMounted /\ ytStage = "ready" /\ Settled /\ lastNav.type = "youtube")
        => (playerTime = lastNav.timestamp /\ playerState = "playing")

\* C5 witness: a paused player at position 0 was sent to 2 and plays.
C5_Witness ==
    /\ YtMounted /\ ytStage = "ready" /\ Settled
    /\ lastNav = Yt(2) /\ navFrom.state = "paused" /\ navFrom.time = 0
    /\ playerTime = 2 /\ playerState = "playing"

Mismatch(source, m) ==
    \/ source.type = "pdf" /\ m = "youtube"
    \/ source.type = "youtube" /\ m = "pdf"
    \/ source.type \notin {"pdf", "youtube", "none"}

\* C6: a click on a citation whose variant does not match the session's
\* content kind leaves the document page, the stream position and the play
\* state as they were.
C6_MismatchIgnored ==
    (screen = "chat" /\ Mismatch(lastNav, mode))
        => /\ pageNumber = navFrom.page
           /\ playerTime = navFrom.time
           /\ playerState = navFrom.state

\* C6 witness: a document citation was clicked in a stream session whose
\* player is ready and paused.
C6_Witness ==
    /\ YtMounted /\ ytStage = "ready" /\ ytRef
    /\ lastNav.type = "pdf"
    /\ playerState = "paused"

Last(s) == s[Len(s)]
IsPrefix(s, t) == Len(s) <= Len(t) /\ SubSeq(t, 1, Len(s)) = s
AppendsOne(s, t) == Len(t) = Len(s) + 1 /\ IsPrefix(s, t)

\* C7: an ask appends a USER message with the question's text to the end
\* of the transcript and sets LOADING while the service call is in flight;
\* a successful response appends an ASSISTANT message with the returned
\* answer and the returned sources in their order, and clears LOADING.
C7_AskThenAnswer ==
    [][/\ Len(pending') > Len(pending)
          => /\ AppendsOne(messages, messages')
             /\ Last(messages').role = "user"
             /\ Last(messages').content = Last(pending').question
             /\ Last(pending').live
             /\ loading'
       /\ (lastReply' # lastReply /\ lastReply'.kind = "ok" /\ lastReply'.live)
          => /\ AppendsOne(messages, messages')
             /\ Last(messages').role = "assistant"
             /\ Last(messages').content = lastReply'.response.answer
             /\ Last(messages').sources =
                    (IF lastReply'.response.hasSources
                       THEN lastReply'.response.sources ELSE <<>>)
             /\ ~loading']_vars

\* C7 witness: question q2 was answered with a1 and the reversed source
\* list; the transcript holds exactly that exchange and LOADING is off.
C7_Witness ==
    /\ screen = "chat" /\ ~loading /\ Len(messages) = 2
    /\ messages[1].role = "user" /\ messages[1].content = "q2"
    /\ lastReply.kind = "ok" /\ lastReply.live
    /\ lastReply.response.sources = Reverse(AllSources)
    /\ messages[2].sources = Reverse(AllSources)

\* C8: a failed service call appends exactly one ASSISTANT message whose
\* text carries the error and whose sources are empty, leaves the earlier
\* messages as they were, clears LOADING and leaves the input accepting
\* the next question.
C8_FailureRecovered ==
    [][(lastReply' # lastReply /\ lastReply'.kind = "fail" /\ lastReply'.live)
          => /\ AppendsOne(messages, messages')
             /\ Last(messages').role = "assistant"
             /\ Last(messages').content = ErrorText(lastReply'.message)
             /\ Last(messages').sources = <<>>
             /\ ~loading'
             /\ CanSubmit']_vars

\* C8 witness: after a failed ask a further question has been accepted.
C8_Witness ==
    /\ screen = "chat" /\ Len(messages) = 3
    /\ messages[2].role = "assistant" /\ messages[2].content = ErrorText("e1")
    /\ messages[3].role = "user" /\ loading

\* C9: the ids of the transcript's messages are pairwise different and
\* grow in the order the messages were appended.
C9_IdsUniqueOrdered ==
    \A i, j \in 1 .. Len(messages) :
        i < j => messages[i].id < messages[j].id

\* C10: within one mounted session every step leaves the transcript a
\* prefix of what it becomes: asks, citation clicks, bookmark operations and
\* bookmark navigation remove, reorder and modify no message.
C10_TranscriptAppendOnly ==
    [][(screen = "chat" /\ screen' = "chat")
          => IsPrefix(messages, messages')]_vars

\* C10 witness: the transcript holds two exchanges while the first answer
\* is bookmarked, was navigated to from the panel and carries the
\* highlight, and a citation has been clicked.
C10_Witness ==
    /\ screen = "chat" /\ Len(messages) = 4
    /\ isBookmarked(messages[2].id)
    /\ scrolledTo = 2 /\ 2 \in ring
    /\ lastNav # NoNav

\* The service calls whose ask belongs to the mounted session.
LiveCalls == {i \in 1 .. Len(pending) : pending[i].live}

\* C11: while LOADING is set no step starts an ask (no service call is
\* added), and at most one ask of the mounted session is in flight.
C11_NoAskWhileLoading ==
    /\ [](Cardinality(LiveCalls) <= 1)
    /\ [][loading => Len(pending') <= Len(pending)]_vars

\* C11 witness: LOADING is set with one ask of the session in flight and
\* an answered exchange before it, so the input was used, blocked and
\* released once already.
C11_Witness ==
    /\ screen = "chat" /\ loading
    /\ Cardinality(LiveCalls) = 1
    /\ Len(messages) = 3

\* C12: with asks running concurrently, every ask appends its USER message
\* to the end of the transcript in the step that starts it, and every
\* completing call appends its ASSISTANT message to the end in the step
\* that completes it, so the answers stand in completion order.
C12_CompletionOrder ==
    [][/\ Len(pending') > Len(pending)
          => /\ AppendsOne(messages, messages')
             /\ Last(messages') = UserMessage(now, Last(pending').question)
       /\ (Len(pending') < Len(pending) /\ lastReply'.live)
          => /\ AppendsOne(messages, messages')
             /\ Last(messages').role = "assistant"
             /\ lastReply'.kind = "ok"
                  => Last(messages').question = lastReply'.question
             /\ lastReply'.kind = "fail"
                  => Last(messages').content = ErrorText(lastReply'.message)]_vars

\* C12 witness: q1 was asked before q2 and answered after it; the
\* transcript reads q1, q2, answer to q2, answer to q1.
C12_Witness ==
    /\ screen = "chat" /\ Len(messages) = 4
    /\ messages[1] = UserMessage(0, "q1")
    /\ messages[2].role = "user" /\ messages[2].content = "q2"
    /\ messages[3].role = "assistant" /\ messages[4].role = "assistant"
    /\ "question" \in DOMAIN messages[3] /\ messages[3].question = "q2"
    /\ "question" \in DOMAIN messages[4] /\ messages[4].question = "q1"

\* C13: the completion, by success or by failure, of an ask whose chat
\* screen has been unmounted changes neither the transcript, nor LOADING,
\* nor the viewer of the session that is mounted then.
C13_StaleCompletionNoOp ==
    [][(Len(pending') < Len(pending) /\ ~lastReply'.live)
          => UNCHANGED <<messages, loading, currentPage, pageNumber,
                         playerTime, playerState>>]_vars

\* C13 witness: an ask of an earlier session completed while the next
\* session had its own first ask in flight; that session still shows only
\* its question and is still LOADING.
C13_Witness ==
    /\ screen = "chat"
    /\ lastReply.kind \in {"ok", "fail"} /\ ~lastReply.live
    /\ loading /\ Len(messages) = 1 /\ Cardinality(LiveCalls) = 1

StoredIds == {bookmarks[k].id : k \in 1 .. Len(bookmarks)}
IdsOf(store) == {store[k].id : k \in 1 .. Len(store)}

\* C14: the store never holds two bookmarks of one id; an add for an id
\* that is there leaves the store as it was; an add for a new id appends
\* the snapshot of its argument stamped with the time of the call.  So
\* the size is the number of distinct ids added and each snapshot is the
\* one of the first add of its id.
C14_OnePerId ==
    /\ \A j, k \in 1 .. Len(bookmarks) :
          j # k => bookmarks[j].id # bookmarks[k].id
    /\ (lastOp.op = "add" /\ lastOp.message.id \in IdsOf(lastOp.before))
          => bookmarks = lastOp.before
    /\ (lastOp.op = "add" /\ lastOp.message.id \notin IdsOf(lastOp.before))
          => /\ AppendsOne(lastOp.before, bookmarks)
             /\ Last(bookmarks).id = lastOp.message.id
             /\ Last(bookmarks).question = lastOp.message.question
             /\ Last(bookmarks).answer = lastOp.message.answer
             /\ Last(bookmarks).sources = lastOp.message.sources
             /\ Last(bookmarks).bookmarkedAt = lastOp.at

\* C14 witness: an id bookmarked at time 0 was added again at time 1 with
\* another question; the store still holds two bookmarks and the old one.
C14_Witness ==
    /\ lastOp.op = "add" /\ lastOp.at = 1
    /\ Len(bookmarks) = 2
    /\ bookmarks[1].id = lastOp.message.id
    /\ bookmarks[1].question # lastOp.message.question
    /\ bookmarks[1].bookmarkedAt = 0

\* The store without the bookmarks of one id, the others in their order.
RECURSIVE Without(_, _)
Without(store, messageId) ==
    IF store = <<>> THEN <<>>
    ELSE IF Head(store).id = messageId
      THEN Without(Tail(store), messageId)
      ELSE <<Head(store)>> \o Without(Tail(store), messageId)

\* C15: after remove(id) the store holds no bookmark of that id and every
\* other bookmark, unchanged and in the same order; for an id that was not
\* there the store is as it was.
C15_RemoveOnlyThat ==
    lastOp.op = "remove"
       => /\ lastOp.id \notin StoredIds
          /\ bookmarks = Without(lastOp.before, lastOp.id)
          /\ lastOp.id \notin IdsOf(lastOp.before) => bookmarks = lastOp.before

\* C15 witness: the older of two bookmarks was removed, the younger stays.
C15_Witness ==
    /\ lastOp.op = "remove"
    /\ Len(lastOp.before) = 2 /\ lastOp.before[1].id = lastOp.id
    /\ bookmarks = <<lastOp.before[2]>>

\* C16: after clear() the store is empty, whatever it held, an empty store
\* included; the step changes neither the transcript nor the viewers'
\* positions.
C16_ClearEmpties ==
    /\ [](lastOp.op = "clear" => bookmarks = <<>>)
    /\ [][(lastOp'.op = "clear" /\ lastOp' # lastOp)
            => UNCHANGED <<messages, currentPage, pageNumber, playerTime,
                           playerState>>]_vars

\* C16 witness: clear() was called on an empty store in a session with an
\* answered question and the document on page 2.
C16_Witness ==
    /\ lastOp.op = "clear" /\ lastOp.before = <<>> /\ bookmarks = <<>>
    /\ Len(messages) = 2 /\ pageNumber = 2

\* C17: isBookmarked(id) is true exactly for the ids the store holds a
\* bookmark of, and a call of it returns that and leaves the store as it
\* was.
C17_LookupExact ==
    /\ \A messageId \in MessageIds :
          isBookmarked(messageId) <=> messageId \in StoredIds
    /\ lastOp.op = "isBookmarked"
          => /\ lastOp.result <=> (lastOp.id \in StoredIds)
             /\ bookmarks = lastOp.before

\* C17 witness: a lookup of the younger of two bookmarks returned true.
C17_Witness ==
    /\ lastOp.op = "isBookmarked" /\ lastOp.result
    /\ Len(bookmarks) = 2 /\ bookmarks[2].id = lastOp.id

\* C18: in every step a bookmark whose id stays in the store stays in it
\* with all its fields as they were.
C18_SnapshotStable ==
    [][\A k \in 1 .. Len(bookmarks) :
          bookmarks[k].id \in IdsOf(bookmarks')
             => \E j \in 1 .. Len(bookmarks') : bookmarks'[j] = bookmarks[k]]_vars

\* C18 witness: in a session with an answered question, a bookmark made at
\* time 0 is unchanged after a later add of its id with another question.
C18_Witness ==
    /\ Len(messages) = 2
    /\ lastOp.op = "add" /\ lastOp.at > 0
    /\ bookmarks # <<>>
    /\ bookmarks[1].id = lastOp.message.id
    /\ bookmarks[1].question # lastOp.message.question
    /\ bookmarks[1].bookmarkedAt = 0

\* C19: whenever a chat screen is mounted, the Bookmark Store it sees is
\* empty.
C19_NewSessionNoBookmarks ==
    [][(screen = "home" /\ screen' = "chat") => bookmarks' = <<>>]_vars

\* The rendered messages a bookmark is the snapshot of.
SnapshotOf(bookmark) ==
    {i \in 1 .. Len(messages) :
        /\ messages[i].role = "assistant"
        /\ [bookmarkedAt |-> bookmark.bookmarkedAt]
              @@ BookmarkPayload(messages[i]) = bookmark}

\* C20: a click on the panel entry of a bookmark whose message is rendered
\* scrolls to that message and puts the emphasis on it, and changes
\* neither the transcript nor the store.
C20_EntryClickFindsMessage ==
    [][\A k \in 1 .. MaxBookmarks :
          (BookmarkEntryClick(k) /\ SnapshotOf(bookmarks[k]) # {})
             => /\ scrolledTo' \in SnapshotOf(bookmarks[k])
                /\ scrolledTo' \in ring'
                /\ messages' = messages
                /\ bookmarks' = bookmarks]_vars

\* C21: a click on the panel entry of a bookmark whose id no rendered
\* message carries scrolls nowhere, emphasises nothing, starts no timer and
\* leaves the transcript and the store as they were.
C21_MissedJumpNoOp ==
    [][\A k \in 1 .. MaxBookmarks :
          (BookmarkEntryClick(k) /\ ElementOf(bookmarks[k].id) = 0)
             => UNCHANGED <<scrolledTo, ring, timers, messages, bookmarks>>]_vars

\* C21 witness: in a session that has a question of its own, the entry of
\* a bookmark left from an earlier session was clicked; nothing is
\* emphasised, no timer waits and the view is at the end of the transcript.
C21_Witness ==
    /\ screen = "chat" /\ missedJump
    /\ messages # <<>> /\ bookmarks # <<>>
    /\ ElementOf(bookmarks[1].id) = 0
    /\ scrolledTo = 0 /\ ring = {} /\ timers = <<>>

C23_ErrorTerminal ==
    [][(PdfMounted /\ pdfError /\ screen' = "chat")
          => (pdfError' /\ ~pdfLoading' /\ numPages' = numPages)]_vars

\* C23 witness: the viewer is in ERROR, a citation of page 2 has been
\* followed and its effects have run.
C23_Witness ==
    /\ PdfMounted /\ pdfError /\ ~pdfLoading /\ Settled
    /\ lastNav = Pdf(2) /\ currentPage = 2 /\ pageNumber = 2

\* C24: the split surface is idle or dragging; a mouse-down on the divider
\* starts a drag, every mouse-up in the document during a drag ends it,
\* over the divider or not, and within a session nothing else changes
\* whether a drag is going on.
C24_DragTransitions ==
    /\ []((SplitMounted /\ SplitSettled)
            => /\ ~isDragging => ENABLED (ResizerMouseDown /\ isDragging')
               /\ isDragging =>
                    \A overResizer \in BOOLEAN :
                       ENABLED (DocumentMouseUp(overResizer) /\ ~isDragging'))
    /\ [][/\ ResizerMouseDown => isDragging'
          /\ \A overResizer \in BOOLEAN :
               (DocumentMouseUp(overResizer) /\ isDragging) => ~isDragging'
          /\ (screen = "chat" /\ screen' = "chat" /\ isDragging' # isDragging)
               => \/ (~isDragging /\ ResizerMouseDown)
                  \/ (isDragging /\ \E overResizer \in BOOLEAN :
                                       DocumentMouseUp(overResizer))]_vars

C24_Witness ==
    /\ SplitMounted /\ SplitSettled
    /\ ~isDragging /\ listeners = 0
    /\ leftWidth = minWidth

\* C25: during a drag a mouse-move whose computed width is within
\* [minWidth, maxWidth] sets the left width to it, and one whose computed
\* width is outside leaves the left width as it was.
C25_MoveAcceptedOrIgnored ==
    [][\A newWidth \in PointerWidths :
          (DocumentMouseMove(newWidth) /\ isDragging)
             => leftWidth' = IF newWidth \in minWidth .. maxWidth
                             THEN newWidth ELSE leftWidth]_vars

C25_Witness ==
    /\ SplitMounted /\ SplitSettled
    /\ isDragging /\ listeners = 1
    /\ leftWidth = maxWidth

\* C26: once the drag effect has run, one pair of document listeners is
\* attached if a drag is going on and none otherwise; there is never more
\* than one pair; none is left after the surface unmounts, in mid-drag or
\* not; a mouse-move outside a drag leaves the width unchanged.
C26_ListenersFollowDrag ==
    /\ [](/\ listeners \in {0, 1}
          /\ SplitSettled => listeners = (IF isDragging THEN 1 ELSE 0)
          /\ screen # "chat" => listeners = 0)
    /\ [][/\ LeaveChat => listeners' = 0
          /\ \A newWidth \in PointerWidths :
               (DocumentMouseMove(newWidth) /\ ~isDragging)
                  => leftWidth' = leftWidth]_vars

C26_Witness ==
    /\ SplitMounted /\ SplitSettled
    /\ ~isDragging /\ listeners = 0
    /\ leftWidth = maxWidth

\* C27: while the split surface is mounted the left width is within
\* [minWidth, maxWidth] and the right panel takes 100 minus the left width.
C27_WidthsInBounds ==
    SplitMounted => /\ leftWidth \in minWidth .. maxWidth
                    /\ rightWidth \in (100 - maxWidth) .. (100 - minWidth)
                    /\ leftWidth + rightWidth = 100

C27_Witness ==
    /\ SplitMounted /\ SplitSettled
    /\ isDragging /\ listeners = 1
    /\ leftWidth = minWidth /\ rightWidth = 100 - minWidth

\* The number of content viewers renderViewer has mounted.
ViewerCount ==
    (IF PdfMounted THEN 1 ELSE 0) + (IF YtMounted THEN 1 ELSE 0)

\* The descriptor names a kind and carries the content of that kind.
ValidDescriptor ==
    \/ mode = "pdf" /\ file
    \/ mode = "youtube" /\ videoId

C29_ClearNeedsConfirm ==
    [][/\ ClearAllClick(FALSE) => bookmarks' = bookmarks
       /\ ((\E confirmed \in BOOLEAN : ClearAllClick(confirmed))
             /\ bookmarks' # bookmarks) => (ClearAllClick(TRUE) /\ bookmarks' = <<>>)
       /\ (Len(bookmarks) >= 2 /\ bookmarks' = <<>>) => ClearAllClick(TRUE)]_vars

C29_Witness ==
    /\ screen = "chat" /\ bookmarksPanelOpen
    /\ Len(bookmarks) = MaxBookmarks
    /\ ENABLED ClearAllClick(FALSE)

\* The descriptor SplitViewChat was rendered with.
Descriptor == [file |-> file, videoId |-> videoId, mode |-> mode]

\* The two descriptors whose kind is the kind of their only content.
MatchingDescriptors ==
    {[file |-> TRUE, videoId |-> FALSE, mode |-> "pdf"],
     [file |-> FALSE, videoId |-> TRUE, mode |-> "youtube"]}

C31_RecordedPageIsShown ==
    (PdfMounted /\ Settled) => currentPage = pageNumber

\* C31 counterexample: a citation of page 0 was clicked on page 1; the
\* [initialPage] effect ignored it and SplitViewChat still holds 0.
C31_RecordedPageStale ==
    /\ PdfMounted /\ Settled
    /\ lastNav = Pdf(0)
    /\ currentPage = 0 /\ pageNumber = 1

\* C32: every bookmark in the store holds a question, and it is the
\* question of an ask.
C32_BookmarkHasQuestion ==
    \A k \in 1 .. Len(bookmarks) :
        /\ "question" \in DOMAIN bookmarks[k]
        /\ bookmarks[k].question \in Questions

\* C32 counterexample: the message of a failed ask was bookmarked; the
\* bookmark holds the error text as its answer and no question.
C32_BookmarkWithoutQuestion ==
    /\ screen = "chat"
    /\ \E k \in 1 .. Len(bookmarks), message \in Errors :
          /\ bookmarks[k].answer = ErrorText(message)
          /\ "question" \notin DOMAIN bookmarks[k]

\* C33: every bookmark was made from an assistant message, and no user
\* message of the transcript carries the id of a bookmark.
C33_BookmarkOfAssistantOnly ==
    \A k \in 1 .. Len(bookmarks) :
        /\ "answer" \in DOMAIN bookmarks[k]
        /\ \A i \in 1 .. Len(messages) :
              messages[i].role = "user" => messages[i].id # bookmarks[k].id

\* C33 counterexample: the answer given at time 0 (id 1) is bookmarked and
\* the question asked at time 1 carries id 1 too.
C33_BookmarkIdOfUserMessage ==
    /\ screen = "chat" /\ Len(messages) = 3
    /\ messages[2].role = "assistant" /\ messages[2].id = 1
    /\ messages[3].role = "user" /\ messages[3].id = 1
    /\ Len(bookmarks) = 1 /\ bookmarks[1].id = 1
    /\ bookmarks[1].answer = messages[2].content

\* C34: with asks made through the input only, in a mounted session the
\* transcript alternates USER, ASSISTANT from a USER message on, LOADING is
\* set exactly when the last message is a USER message, exactly one ask of
\* the session is in flight then and none otherwise, and the transcript is
\* of even length while LOADING is clear.
C34_AlternatingTranscript ==
    screen = "chat" =>
        /\ \A i \in 1 .. Len(messages) :
              messages[i].role = IF i % 2 = 1 THEN "user" ELSE "assistant"
        /\ loading <=> (messages # <<>> /\ Last(messages).role = "user")
        /\ Cardinality(LiveCalls) = IF loading THEN 1 ELSE 0
        /\ ~loading => Len(messages) % 2 = 0

\* C34 witness: two exchanges, the first failed and the second answered,
\* and LOADING is clear.
C34_Witness ==
    /\ screen = "chat" /\ ~loading /\ Len(messages) = 4
    /\ messages[2].content = ErrorText("e1")
    /\ messages[4].content = <<"a1">>
    /\ LiveCalls = {}

C36_EmphasisUntilLatestTimer ==
    \A t \in 1 .. Len(timers) : timers[t] \in ring

\* C36 counterexample: the bookmark of one message was clicked twice; the
\* first timer has run and taken the emphasis off while the second waits.
C36_EmphasisClearedEarly ==
    /\ screen = "chat" /\ Len(timers) = 1
    /\ scrolledTo = timers[1]
    /\ timers[1] \notin ring

\* C37: the remove control of a panel entry takes exactly that bookmark
\* out of the store, scrolls to nothing, emphasises nothing, starts no timer
\* and leaves the panel open; a click on the entry itself leaves the store
\* as it is, scrolls to and emphasises the element found for the id, and
\* closes the panel.
C37_RemoveDoesNotNavigate ==
    [][\A k \in 1 .. MaxBookmarks :
          /\ BookmarkEntryRemove(k)
                => /\ bookmarks' = RemoveAt(bookmarks, k)
                   /\ bookmarksPanelOpen'
                   /\ UNCHANGED <<scrolledTo, ring, timers, messages>>
          /\ BookmarkEntryClick(k)
                => /\ bookmarks' = bookmarks
                   /\ ~bookmarksPanelOpen'
                   /\ ElementOf(bookmarks[k].id) # 0
                        => /\ scrolledTo' = ElementOf(bookmarks[k].id)
                           /\ ElementOf(bookmarks[k].id) \in ring']_vars

\* C37 witness: the panel is open over two bookmarks after an entry was
\* clicked and its emphasis is still on; either control can be used.
C37_Witness ==
    /\ screen = "chat" /\ bookmarksPanelOpen
    /\ Len(bookmarks) = 2
    /\ scrolledTo # 0 /\ ring # {}
    /\ ENABLED BookmarkEntryRemove(1)
    /\ ENABLED BookmarkEntryClick(2)

\* C38: under the viewer's own controls the page is at least 1 and, once
\* the document has loaded, at most numPages; previous-page goes one page
\* down and not below 1, next-page one page up and not above numPages, a
\* typed page is taken exactly if it lies in 1..numPages, and while numPages
\* is unknown (before the load, after a failed load) no step changes the
\* page.
C38_ControlsKeepRange ==
    /\ [](PdfMounted => /\ pageNumber >= 1
                        /\ Loaded => pageNumber <= numPages
                        /\ pageNumber = 1 => ~ENABLED goToPrevPage
                        /\ pageNumber >= numPages => ~ENABLED goToNextPage)
    /\ [][/\ goToPrevPage => (pageNumber' = pageNumber - 1 /\ pageNumber' >= 1)
          /\ goToNextPage => (pageNumber' = pageNumber + 1
                              /\ pageNumber' <= numPages)
          /\ \A page \in CitedPages :
               TypePage(page)
                 => pageNumber' = IF page \in 1 .. numPages THEN page
                                  ELSE pageNumber
          /\ (PdfMounted /\ numPages = 0 /\ screen' = "chat")
               => pageNumber' = pageNumber]_vars

\* C38 witness: the two-page document is loaded and was paged to its last
\* page with the controls; SplitViewChat has been told.
C38_Witness ==
    /\ Loaded /\ Settled
    /\ numPages = MaxPages /\ pageNumber = MaxPages /\ currentPage = MaxPages
    /\ lastNav = NoNav /\ messages = <<>>

\* C39: no player instance that became ready in a viewer that has since
\* been unmounted is still alive: the unmount destroyed it.
C39_ReadyPlayerDestroyed ==
    \A p \in ytPlayers : p.owner = "gone" => ~p.ready

\* C39 counterexample: the YouTube session was left after its player had
\* become ready, the home screen is shown, and that player is still alive.
C39_ReadyPlayerSurvives ==
    /\ screen = "home" /\ ~player
    /\ [owner |-> "gone", ready |-> TRUE] \in ytPlayers

====
